---- MODULE Spec2Model ----
(***************************************************************************)
(* Threaded Pseudo-Quantum Bogosort (src/tpqbogo.py).                      *)
(*                                                                         *)
(* main(array_size) builds and shuffles 1..array_size, rejects sizes < 1   *)
(* and calls tpqbogo(arr).  tpqbogo materialises every positional          *)
(* permutation of arr, starts one thread per permutation (check_sort),     *)
(* joins them all, and returns the first element of the lock-guarded       *)
(* result list.  Threads interleave freely with each other and with the    *)
(* spawning / joining orchestrator.                                        *)
(***************************************************************************)
EXTENDS Integers, Sequences, FiniteSets, TLC

\* Largest array length explored (main's size argument and direct calls).
MaxLen == 3
\* Direct calls of tpqbogo take arrays over 1..MaxVal (duplicates included).
MaxVal == 2

VARIABLES
    pc,                \* position of the orchestrating (main) thread
    entry,             \* "none" | "main" | "direct": how tpqbogo is reached
    array_size,        \* main's argument
    arr,               \* main's arr / tpqbogo's arr parameter
    arr_permutations,  \* tpqbogo: list of permutations
    permutation_count, \* tpqbogo: factorial(len(arr))
    created,           \* TRUE once Locked([]) has been constructed
    results,           \* Locked.item: the list of ThreadResult
    locked,            \* Locked.lock: held or not
    threads,           \* started threads, in start order, with their arguments
    joined,            \* number of threads the join loop has passed
    ret,               \* <<>> or <<Result>>: value returned by tpqbogo
    exc,               \* "none" or the exception / exit leaving the orchestrator
    main_result        \* <<>> or <<MainResult>>: value returned by main

vars == <<pc, entry, array_size, arr, arr_permutations, permutation_count,
          created, results, locked, threads, joined, ret, exc, main_result>>

----------------------------------------------------------------------------
(* Pure functions *)

\* The permutations of the positions 1..n, as a set of functions.
Bijections(n) ==
    {f \in [1..n -> 1..n] : \A i, j \in 1..n : i # j => f[i] # f[j]}

\* Mutant of factorial: the running sum instead of the running product.
RECURSIVE factorial_sum(_)
factorial_sum(n) == IF n <= 0 THEN 1 ELSE n + factorial_sum(n - 1)

\* math.factorial
RECURSIVE factorial(_)
factorial(n) == IF n <= 0 THEN 1 ELSE n * factorial(n - 1)

\* Mutant of is_sorted: strict comparison, equal neighbours count as unsorted.
is_sorted_strict(a) == \A i \in 1..(Len(a) - 1) : a[i] < a[i + 1]

\* Mutant of is_sorted: any() in place of all(), so a list without an
\* adjacent pair counts as unsorted.
is_sorted_any(a) == \E i \in 1..(Len(a) - 1) : a[i] <= a[i + 1]

\* Mutant of is_sorted: the comparison turned around.
is_sorted_flipped(a) == \A i \in 1..(Len(a) - 1) : a[i] >= a[i + 1]

\* all(left <= right for left, right in zip(arr, arr[1:]))
is_sorted(a) == \A i \in 1..(Len(a) - 1) : a[i] <= a[i + 1]

\* itertools.permutations works on positions: the index tuples over a pool,
\* emitted in lexicographic order of the positions.
RECURSIVE IndexTuples(_)
RECURSIVE Branches(_, _)
Branches(S, T) ==
    IF T = {} THEN <<>>
    ELSE LET i == CHOOSE x \in T : \A y \in T : x <= y
             tails == IndexTuples(S \ {i})
         IN  [k \in 1..Len(tails) |-> <<i>> \o tails[k]] \o Branches(S, T \ {i})

IndexTuples(S) == IF S = {} THEN << <<>> >> ELSE Branches(S, S)

\* list(p): the pool's elements at the positions of one index tuple
PermList(a, t) == [i \in 1..Len(a) |-> a[t[i]]]

\* Mutant of permutations: the first element is left out of the pool.
permutations_tail(a) ==
    LET b == Tail(a)
        tuples == IndexTuples(1..Len(b))
    IN  [k \in 1..Len(tuples) |-> PermList(b, tuples[k])]

\* Mutant of permutations: arrangements equal by value are emitted once.
permutations_distinct(a) ==
    LET tuples == IndexTuples(1..Len(a))
        all == [k \in 1..Len(tuples) |-> PermList(a, tuples[k])]
        keep == {k \in 1..Len(all) : \A j \in 1..(k - 1) : all[j] # all[k]}
        nth(n) == CHOOSE k \in keep : Cardinality({j \in keep : j <= k}) = n
    IN  [n \in 1..Cardinality(keep) |-> all[nth(n)]]

\* [list(p) for p in permutations(arr)]
permutations(a) ==
    LET tuples == IndexTuples(1..Len(a))
    IN  [k \in 1..Len(tuples) |-> PermList(a, tuples[k])]

\* list(range(1, array_size + 1))
range1(n) == [i \in 1..n |-> i]

\* random.shuffle: any reordering of the list
Shuffles(a) == {PermList(a, f) : f \in Bijections(Len(a))}

\* ThreadResult(thread_id=idx, sorted_array=arr)
ThreadResult(idx, a) == [thread_id |-> idx, sorted_array |-> a]

\* Result(num_of_permutations=..., successful_thread=...)
Result(n, t) == [num_of_permutations |-> n, successful_thread |-> t]

\* MainResult(original_array=arr, ..., result=result); the elapsed time is
\* a clock difference and is not modelled.
MainResult(a, r) == [original_array |-> a, result |-> r]

----------------------------------------------------------------------------
(* Inputs *)

Sizes == (0 - 1)..MaxLen

RECURSIVE SeqsOfLen(_)
SeqsOfLen(n) ==
    IF n = 0 THEN {<<>>}
    ELSE {Append(s, v) : s \in SeqsOfLen(n - 1), v \in 1..MaxVal}

Arrays == UNION {SeqsOfLen(n) : n \in 1..MaxLen}

----------------------------------------------------------------------------
Init ==
    /\ pc = "start"
    /\ entry = "none"
    /\ array_size = 0
    /\ arr = <<>>
    /\ arr_permutations = <<>>
    /\ permutation_count = 0
    /\ created = FALSE
    /\ results = <<>>
    /\ locked = FALSE
    /\ threads = <<>>
    /\ joined = 0
    /\ ret = <<>>
    /\ exc = "none"
    /\ main_result = <<>>

----------------------------------------------------------------------------
(* main *)

\* main(array_size): arr = list(range(1, array_size + 1))
MainCall(n) ==
    /\ pc = "start"
    /\ entry' = "main"
    /\ array_size' = n
    /\ arr' = range1(n)
    /\ pc' = "main_shuffle"
    /\ UNCHANGED <<arr_permutations, permutation_count, created, results,
                   locked, threads, joined, ret, exc, main_result>>

\* shuffle(arr)
MainShuffle ==
    /\ pc = "main_shuffle"
    /\ \E s \in Shuffles(arr) : arr' = s
    /\ pc' = "main_validate"
    /\ UNCHANGED <<entry, array_size, arr_permutations, permutation_count,
                   created, results, locked, threads, joined, ret, exc,
                   main_result>>

\* Mutant of MainValidate: only negative sizes are rejected.
MainValidate_negative ==
    /\ pc = "main_validate"
    /\ IF array_size < 0
       THEN /\ exc' = "SystemExit"
            /\ pc' = "exited"
       ELSE /\ exc' = exc
            /\ pc' = "tpqbogo"
    /\ UNCHANGED <<entry, array_size, arr, arr_permutations,
                   permutation_count, created, results, locked, threads,
                   joined, ret, main_result>>

\* if array_size < 1: print(...); exit(1)      else: result = tpqbogo(arr)
MainValidate ==
    /\ pc = "main_validate"
    /\ IF array_size < 1
       THEN /\ exc' = "SystemExit"
            /\ pc' = "exited"
       ELSE /\ exc' = exc
            /\ pc' = "tpqbogo"
    /\ UNCHANGED <<entry, array_size, arr, arr_permutations,
                   permutation_count, created, results, locked, threads,
                   joined, ret, main_result>>

\* return MainResult(original_array=arr, ..., result=result)
MainReturn ==
    /\ pc = "returned"
    /\ entry = "main"
    /\ main_result' = <<MainResult(arr, ret[1])>>
    /\ pc' = "main_returned"
    /\ UNCHANGED <<entry, array_size, arr, arr_permutations,
                   permutation_count, created, results, locked, threads,
                   joined, ret, exc>>

\* tpqbogo(arr) called directly with any non-empty list of integers.
DirectCall(a) ==
    /\ pc = "start"
    /\ entry' = "direct"
    /\ arr' = a
    /\ pc' = "tpqbogo"
    /\ UNCHANGED <<array_size, arr_permutations, permutation_count, created,
                   results, locked, threads, joined, ret, exc, main_result>>

----------------------------------------------------------------------------
(* tpqbogo: the orchestrator *)

\* arr_permutations = [...]; permutation_count = factorial(len(arr));
\* results = Locked([]); threads = []
TpqbogoSetup ==
    /\ pc = "tpqbogo"
    /\ arr_permutations' = permutations(arr)
    /\ permutation_count' = factorial(Len(arr))
    /\ created' = TRUE
    /\ results' = <<>>
    /\ locked' = FALSE
    /\ threads' = <<>>
    /\ pc' = "spawn"
    /\ UNCHANGED <<entry, array_size, arr, joined, ret, exc, main_result>>

\* One iteration of: for idx, perm in enumerate(arr_permutations):
\*     t = Thread(target=check_sort, args=(idx, list(perm), results))
\*     t.start(); threads.append(t)
Spawn ==
    /\ pc = "spawn"
    /\ Len(threads) < Len(arr_permutations)
    /\ LET idx == Len(threads)
           perm == arr_permutations[idx + 1]
       IN  threads' = Append(threads,
                [idx |-> idx, arr |-> perm, pc |-> "check", exc |-> FALSE])
    /\ pc' = IF Len(threads) + 1 = Len(arr_permutations) THEN "join" ELSE "spawn"
    /\ joined' = 0
    /\ UNCHANGED <<entry, array_size, arr, arr_permutations,
                   permutation_count, created, results, locked, ret, exc,
                   main_result>>

\* Mutant of Join: the loop moves on without waiting for the thread.
Join_nowait ==
    /\ pc = "join"
    /\ joined < Len(threads)
    /\ joined' = joined + 1
    /\ pc' = IF joined + 1 = Len(threads) THEN "enter" ELSE "join"
    /\ UNCHANGED <<entry, array_size, arr, arr_permutations,
                   permutation_count, created, results, locked, threads, ret,
                   exc, main_result>>

\* One iteration of: for t in threads: t.join()
\* join returns once the thread has terminated, however it terminated.
Join ==
    /\ pc = "join"
    /\ joined < Len(threads)
    /\ threads[joined + 1].pc = "done"
    /\ joined' = joined + 1
    /\ pc' = IF joined + 1 = Len(threads) THEN "enter" ELSE "join"
    /\ UNCHANGED <<entry, array_size, arr, arr_permutations,
                   permutation_count, created, results, locked, threads, ret,
                   exc, main_result>>

\* with results as r:   (Locked.__enter__: self.lock.acquire())
OrchEnter ==
    /\ pc = "enter"
    /\ ~locked
    /\ locked' = TRUE
    /\ pc' = "read"
    /\ UNCHANGED <<entry, array_size, arr, arr_permutations,
                   permutation_count, created, results, threads, joined, ret,
                   exc, main_result>>

\* Mutant of OrchRead: an empty list yields a placeholder winner.
OrchRead_default ==
    /\ pc = "read"
    /\ exc' = exc
    /\ ret' = IF results = <<>>
              THEN <<Result(permutation_count, ThreadResult(0, <<>>))>>
              ELSE <<Result(permutation_count, results[1])>>
    /\ pc' = "exit"
    /\ UNCHANGED <<entry, array_size, arr, arr_permutations,
                   permutation_count, created, results, locked, threads,
                   joined, main_result>>

\* Mutant of OrchRead: the winner is also written back into arr (an
\* in-place sort of the caller's list).
OrchRead_inplace ==
    /\ pc = "read"
    /\ IF results = <<>>
       THEN /\ exc' = "IndexError"
            /\ ret' = ret
            /\ arr' = arr
       ELSE /\ exc' = exc
            /\ ret' = <<Result(permutation_count, results[1])>>
            /\ arr' = results[1].sorted_array
    /\ pc' = "exit"
    /\ UNCHANGED <<entry, array_size, arr_permutations,
                   permutation_count, created, results, locked, threads,
                   joined, main_result>>

\* Mutant of OrchRead: the outcome with the smallest thread id is returned.
OrchRead_minid ==
    /\ pc = "read"
    /\ IF results = <<>>
       THEN /\ exc' = "IndexError"
            /\ ret' = ret
       ELSE /\ exc' = exc
            /\ ret' = <<Result(permutation_count,
                        CHOOSE r \in {results[j] : j \in 1..Len(results)} :
                            \A j \in 1..Len(results) :
                                r.thread_id <= results[j].thread_id)>>
    /\ pc' = "exit"
    /\ UNCHANGED <<entry, array_size, arr, arr_permutations,
                   permutation_count, created, results, locked, threads,
                   joined, main_result>>

\* first_to_survive = r[0]; return Result(...)
\* r[0] on an empty list raises IndexError.
OrchRead ==
    /\ pc = "read"
    /\ IF results = <<>>
       THEN /\ exc' = "IndexError"
            /\ ret' = ret
       ELSE /\ exc' = exc
            /\ ret' = <<Result(permutation_count, results[1])>>
    /\ pc' = "exit"
    /\ UNCHANGED <<entry, array_size, arr, arr_permutations,
                   permutation_count, created, results, locked, threads,
                   joined, main_result>>

\* Locked.__exit__: self.lock.release(); returns None, so a pending
\* exception propagates to the caller.
OrchExit ==
    /\ pc = "exit"
    /\ locked' = FALSE
    /\ pc' = IF exc = "none" THEN "returned" ELSE "raised"
    /\ UNCHANGED <<entry, array_size, arr, arr_permutations,
                   permutation_count, created, results, threads, joined, ret,
                   exc, main_result>>

----------------------------------------------------------------------------
(* check_sort: the body of thread number i (position i in threads) *)

SetThread(i, f) == [threads EXCEPT ![i] = f]

\* Mutant of TaskCheck: the early return is missing.
TaskCheck_noreturn(i) ==
    /\ i \in 1..Len(threads)
    /\ threads[i].pc = "check"
    /\ threads' = SetThread(i, [threads[i] EXCEPT !.pc = "enter"])
    /\ UNCHANGED <<pc, entry, array_size, arr, arr_permutations,
                   permutation_count, created, results, locked, joined, ret,
                   exc, main_result>>

\* Mutant of TaskCheck: the test is inverted (if is_sorted: return).
TaskCheck_inverted(i) ==
    /\ i \in 1..Len(threads)
    /\ threads[i].pc = "check"
    /\ threads' = SetThread(i, [threads[i] EXCEPT
            !.pc = IF is_sorted(threads[i].arr) THEN "done" ELSE "enter"])
    /\ UNCHANGED <<pc, entry, array_size, arr, arr_permutations,
                   permutation_count, created, results, locked, joined, ret,
                   exc, main_result>>

\* is_sorted = all(...); if not is_sorted: return
TaskCheck(i) ==
    /\ i \in 1..Len(threads)
    /\ threads[i].pc = "check"
    /\ threads' = SetThread(i, [threads[i] EXCEPT
            !.pc = IF is_sorted(threads[i].arr) THEN "enter" ELSE "done"])
    /\ UNCHANGED <<pc, entry, array_size, arr, arr_permutations,
                   permutation_count, created, results, locked, joined, ret,
                   exc, main_result>>

\* Mutant of TaskEnter: __enter__ hands out the list without acquiring.
TaskEnter_nolock(i) ==
    /\ i \in 1..Len(threads)
    /\ threads[i].pc = "enter"
    /\ locked' = TRUE
    /\ threads' = SetThread(i, [threads[i] EXCEPT !.pc = "append"])
    /\ UNCHANGED <<pc, entry, array_size, arr, arr_permutations,
                   permutation_count, created, results, joined, ret, exc,
                   main_result>>

\* with results as r:   (Locked.__enter__: self.lock.acquire())
TaskEnter(i) ==
    /\ i \in 1..Len(threads)
    /\ threads[i].pc = "enter"
    /\ ~locked
    /\ locked' = TRUE
    /\ threads' = SetThread(i, [threads[i] EXCEPT !.pc = "append"])
    /\ UNCHANGED <<pc, entry, array_size, arr, arr_permutations,
                   permutation_count, created, results, joined, ret, exc,
                   main_result>>

\* Mutant of TaskAppend: the list is replaced instead of extended, so an
\* earlier outcome is lost.
TaskAppend_overwrite(i) ==
    /\ i \in 1..Len(threads)
    /\ threads[i].pc = "append"
    /\ results' = <<ThreadResult(threads[i].idx, threads[i].arr)>>
    /\ threads' = SetThread(i, [threads[i] EXCEPT !.pc = "exit"])
    /\ UNCHANGED <<pc, entry, array_size, arr, arr_permutations,
                   permutation_count, created, locked, joined, ret, exc,
                   main_result>>

\* Mutant of TaskAppend: the recorded id is the thread's completion rank
\* (how many threads have terminated before it), not its idx.
TaskAppend_rank(i) ==
    /\ i \in 1..Len(threads)
    /\ threads[i].pc = "append"
    /\ results' = Append(results,
            ThreadResult(Cardinality({k \in 1..Len(threads) : threads[k].pc = "done"}),
                         threads[i].arr))
    /\ threads' = SetThread(i, [threads[i] EXCEPT !.pc = "exit"])
    /\ UNCHANGED <<pc, entry, array_size, arr, arr_permutations,
                   permutation_count, created, locked, joined, ret, exc,
                   main_result>>

\* Mutant of TaskAppend: the first success ends every sibling still running.
TaskAppend_cancel(i) ==
    /\ i \in 1..Len(threads)
    /\ threads[i].pc = "append"
    /\ results' = Append(results, ThreadResult(threads[i].idx, threads[i].arr))
    /\ threads' = [k \in 1..Len(threads) |->
            IF k = i THEN [threads[k] EXCEPT !.pc = "exit"]
            ELSE IF threads[k].pc \in {"check", "enter"}
                 THEN [threads[k] EXCEPT !.pc = "done"]
                 ELSE threads[k]]
    /\ UNCHANGED <<pc, entry, array_size, arr, arr_permutations,
                   permutation_count, created, locked, joined, ret, exc,
                   main_result>>

\* r.append(ThreadResult(thread_id=idx, sorted_array=arr))
TaskAppend(i) ==
    /\ i \in 1..Len(threads)
    /\ threads[i].pc = "append"
    /\ results' = Append(results, ThreadResult(threads[i].idx, threads[i].arr))
    /\ threads' = SetThread(i, [threads[i] EXCEPT !.pc = "exit"])
    /\ UNCHANGED <<pc, entry, array_size, arr, arr_permutations,
                   permutation_count, created, locked, joined, ret, exc,
                   main_result>>

\* Mutant of TaskExit: the thread terminates without releasing the lock.
TaskExit_norelease(i) ==
    /\ i \in 1..Len(threads)
    /\ threads[i].pc = "exit"
    /\ threads' = SetThread(i, [threads[i] EXCEPT !.pc = "done"])
    /\ UNCHANGED <<pc, entry, array_size, arr, arr_permutations,
                   permutation_count, created, results, locked, joined, ret,
                   exc, main_result>>

\* Locked.__exit__: self.lock.release(); the thread then terminates
TaskExit(i) ==
    /\ i \in 1..Len(threads)
    /\ threads[i].pc = "exit"
    /\ locked' = FALSE
    /\ threads' = SetThread(i, [threads[i] EXCEPT !.pc = "done"])
    /\ UNCHANGED <<pc, entry, array_size, arr, arr_permutations,
                   permutation_count, created, results, joined, ret, exc,
                   main_result>>

\* An exception raised in check_sort before the with block (the comparison,
\* or dbg's print to stderr): nothing catches it, so the thread terminates
\* with the exception and nothing is handed to the orchestrator.
TaskFail(i) ==
    /\ i \in 1..Len(threads)
    /\ threads[i].pc = "check"
    /\ threads' = SetThread(i, [threads[i] EXCEPT !.pc = "done", !.exc = TRUE])
    /\ UNCHANGED <<pc, entry, array_size, arr, arr_permutations,
                   permutation_count, created, results, locked, joined, ret,
                   exc, main_result>>

\* An exception raised inside the with block (the append): __exit__ still
\* releases the lock, then the thread terminates with the exception.
TaskAppendFail(i) ==
    /\ i \in 1..Len(threads)
    /\ threads[i].pc = "append"
    /\ threads' = SetThread(i, [threads[i] EXCEPT !.pc = "exit", !.exc = TRUE])
    /\ UNCHANGED <<pc, entry, array_size, arr, arr_permutations,
                   permutation_count, created, results, locked, joined, ret,
                   exc, main_result>>

----------------------------------------------------------------------------
Next ==
    \/ \E n \in Sizes : MainCall(n)
    \/ MainShuffle
    \/ MainValidate
    \/ MainReturn
    \/ \E a \in Arrays : DirectCall(a)
    \/ TpqbogoSetup
    \/ Spawn
    \/ Join
    \/ OrchEnter
    \/ OrchRead
    \/ OrchExit
    \/ \E i \in 1..Len(threads) : TaskCheck(i)
    \/ \E i \in 1..Len(threads) : TaskEnter(i)
    \/ \E i \in 1..Len(threads) : TaskAppend(i)
    \/ \E i \in 1..Len(threads) : TaskExit(i)

\* Every thread runs check_sort to its end without an exception.
Spec == Init /\ [][Next]_vars

NextFault ==
    \/ Next
    \/ \E i \in 1..Len(threads) : TaskFail(i)
    \/ \E i \in 1..Len(threads) : TaskAppendFail(i)

\* Threads may also terminate by an uncaught exception.
SpecFault == Init /\ [][NextFault]_vars

\* The scheduler keeps running threads: as long as some thread (a worker or
\* the orchestrator) can take a step, a step is eventually taken.
FairSpec == Spec /\ WF_vars(Next)

----------------------------------------------------------------------------
(* Properties *)

\* Number of positions of s holding the value v.
Count(s, v) == Cardinality({i \in 1..Len(s) : s[i] = v})

\* s and t hold the same elements with the same multiplicities.
SameElements(s, t) ==
    /\ Len(s) = Len(t)
    /\ \A v \in {s[i] : i \in 1..Len(s)} \cup {t[i] : i \in 1..Len(t)} :
           Count(s, v) = Count(t, v)

\* The orchestrator has left the spawn loop: every permutation has a thread.
FannedOut == pc \in {"join", "enter", "read", "exit", "returned", "raised",
                     "main_returned"}

\* C1: whenever tpqbogo has produced a Result, the sorted_array of its
\* successful_thread is non-decreasing: every adjacent pair has left <= right.
C1_WinnerSorted ==
    ret # <<>> =>
        LET sa == ret[1].successful_thread.sorted_array
        IN  \A i \in 1..(Len(sa) - 1) : sa[i] <= sa[i + 1]

C1_Witness ==
    /\ pc = "returned"
    /\ arr = <<2, 1, 2>>
    /\ ret # <<>>
    /\ ret[1].successful_thread.sorted_array = <<1, 2, 2>>

\* C2: the winner's sorted_array holds exactly the elements of the input,
\* with their multiplicities: of original_array in the MainResult, and of
\* the array handed to tpqbogo.
C2_WinnerIsPermutation ==
    /\ main_result # <<>> =>
           SameElements(main_result[1].result.successful_thread.sorted_array,
                        main_result[1].original_array)
    /\ ret # <<>> =>
           SameElements(ret[1].successful_thread.sorted_array, arr)

C2_Witness ==
    /\ main_result # <<>>
    /\ main_result[1].original_array = <<3, 1, 2>>
    /\ main_result[1].result.successful_thread.sorted_array = <<1, 2, 3>>

\* C3: the reported num_of_permutations is N!, the number of permutations
\* of N positions, N being the length of the input array, duplicates or not.
C3_CountIsFactorial ==
    ret # <<>> =>
        ret[1].num_of_permutations = Cardinality(Bijections(Len(arr)))

C3_Witness ==
    /\ pc = "returned"
    /\ arr = <<1, 2, 1>>
    /\ ret # <<>>
    /\ ret[1].num_of_permutations = 6

\* C4: the threads started so far carry the ids 0, 1, 2, ... and the
\* permutations in enumeration order; once the spawn loop is over there are
\* exactly N! of them, every positional arrangement of the input is the
\* candidate of as many threads as there are position permutations
\* producing it, and the count equals the reported num_of_permutations.
C4_FanOut ==
    /\ \A k \in 1..Len(threads) :
           /\ threads[k].idx = k - 1
           /\ k <= Len(arr_permutations)
           /\ threads[k].arr = arr_permutations[k]
    /\ Len(threads) <= Cardinality(Bijections(Len(arr)))
    /\ FannedOut =>
           /\ Len(threads) = Cardinality(Bijections(Len(arr)))
           /\ \A c \in Shuffles(arr) :
                  Cardinality({k \in 1..Len(threads) : threads[k].arr = c})
                      = Cardinality({f \in Bijections(Len(arr)) : PermList(arr, f) = c})
    /\ ret # <<>> => Len(threads) = ret[1].num_of_permutations

C4_Witness ==
    /\ pc = "join"
    /\ arr = <<1, 2, 1>>
    /\ Len(threads) = 6
    /\ Cardinality({k \in 1..Len(threads) : threads[k].arr = <<1, 1, 2>>}) = 2

\* The orchestrator has passed the join loop.
PastBarrier == pc \in {"enter", "read", "exit", "returned", "raised",
                       "main_returned"}

\* C5: whenever the orchestrator is past the join loop (about to take the
\* lock, reading r[0], or later), every permutation has a thread and every
\* thread has terminated, so no append can follow the read.
C5_JoinBarrier ==
    PastBarrier =>
        /\ Len(threads) = Len(arr_permutations)
        /\ joined = Len(threads)
        /\ \A k \in 1..Len(threads) : threads[k].pc = "done"

C5_Witness ==
    /\ pc = "read"
    /\ Len(threads) = 6
    /\ Len(results) = 2
    /\ \A k \in 1..Len(threads) : threads[k].pc = "done"

\* C6: for an input of length >= 1, the result list is not empty when the
\* orchestrator reads it, and no state has every permutation's thread
\* terminated with the list still empty.
C6_ResultNonEmpty ==
    Len(arr) >= 1 =>
        /\ pc = "read" => results # <<>>
        /\ (/\ FannedOut
            /\ \A k \in 1..Len(threads) : threads[k].pc = "done")
               => results # <<>>

C6_Witness ==
    /\ pc = "read"
    /\ arr = <<2, 1, 1>>
    /\ Len(results) = 2

\* No value occurs twice in s.
Distinct(s) == \A i, j \in 1..Len(s) : i # j => s[i] # s[j]

\* The strictly ascending arrangement of a list of distinct values.
Ascending(s) ==
    CHOOSE t \in Shuffles(s) : \A i \in 1..(Len(t) - 1) : t[i] < t[i + 1]

\* Number of positional arrangements of s that are non-decreasing.
SortedArrangements(s) ==
    Cardinality({f \in Bijections(Len(s)) :
        \A i \in 1..(Len(s) - 1) : s[f[i]] <= s[f[i + 1]]})

\* C7: the result list is never longer than the number of arrangements of
\* the input that are sorted; for an input of pairwise distinct elements it
\* holds at most one outcome, and past the barrier exactly one, whose
\* candidate is the ascending arrangement.
C7_DistinctSingleOutcome ==
    /\ Len(results) <= SortedArrangements(arr)
    /\ Distinct(arr) =>
           /\ Len(results) <= 1
           /\ PastBarrier =>
                  /\ Len(results) = 1
                  /\ results[1].sorted_array = Ascending(arr)

C7_Witness ==
    /\ entry = "main"
    /\ pc = "returned"
    /\ arr = <<3, 1, 2>>
    /\ Len(results) = 1
    /\ results[1].sorted_array = <<1, 2, 3>>
    /\ permutation_count = 6

\* C8: a run of main with a size below 1 never enters tpqbogo, never
\* creates the Locked list and never starts a thread, and ends in exit(1);
\* whenever main has entered tpqbogo the size is at least 1.
C8_InvalidSizeRejected ==
    entry = "main" =>
        /\ array_size < 1 =>
               /\ pc \in {"main_shuffle", "main_validate", "exited"}
               /\ ~created
               /\ threads = <<>>
               /\ results = <<>>
               /\ ret = <<>>
        /\ pc = "exited" => (array_size < 1 /\ exc = "SystemExit")
        /\ (pc = "tpqbogo" \/ created) => (array_size >= 1 /\ Len(arr) = array_size)

C8_Witness ==
    /\ entry = "main"
    /\ array_size = 0
    /\ pc = "exited"
    /\ exc = "SystemExit"
    /\ ~created

\* C9: if a thread terminated by an uncaught exception, tpqbogo does not
\* return a Result: the failure reaches the orchestrator.
C9_FailurePropagates ==
    (\E k \in 1..Len(threads) : threads[k].exc) => ret = <<>>

\* C10: if the result list is empty when the orchestrator reads it, the
\* read raises: Locked.__exit__ releases the lock, tpqbogo ends by the
\* IndexError and no Result or MainResult is produced; a Result, when there
\* is one, carries the first element of the list.
C10_EmptyResultRaises ==
    /\ (pc \in {"exit", "returned", "raised", "main_returned"} /\ results = <<>>)
           => /\ pc \in {"exit", "raised"}
              /\ exc = "IndexError"
              /\ ret = <<>>
              /\ main_result = <<>>
    /\ pc = "raised" => ~locked
    /\ ret # <<>> =>
           /\ results # <<>>
           /\ ret[1].successful_thread = results[1]

C10_Witness ==
    /\ pc = "raised"
    /\ results = <<>>
    /\ exc = "IndexError"
    /\ ~locked
    /\ \A k \in 1..Len(threads) : threads[k].pc = "done"

\* Every adjacent pair of s has left <= right.
NonDecreasing(s) == \A i \in 1..(Len(s) - 1) : s[i] <= s[i + 1]

\* C11: no cancellation and no early exit. A thread leaves its check only
\* by its own step and according to its own candidate (to termination when
\* unsorted, to the with block when sorted); a step that appends changes no
\* other thread; a started thread stays started; and tpqbogo has no Result
\* before every permutation's thread has terminated.
C11_NoCancellation ==
    /\ [](ret # <<>> =>
            /\ Len(threads) = Len(arr_permutations)
            /\ \A k \in 1..Len(threads) : threads[k].pc = "done")
    /\ [][/\ Len(threads') >= Len(threads)
          /\ \A k \in 1..Len(threads) :
                 /\ (threads[k].pc = "check" /\ threads'[k].pc # "check") =>
                        threads'[k].pc =
                            IF NonDecreasing(threads[k].arr) THEN "enter" ELSE "done"
                 /\ (threads[k].pc = "enter" /\ threads'[k].pc # "enter") =>
                        threads'[k].pc = "append"
                 /\ (results' # results /\ threads[k].pc # "append") =>
                        threads'[k] = threads[k]]_vars

C11_Witness ==
    /\ Len(threads) = 6
    /\ Len(results) = 1
    /\ \E k \in 1..Len(threads) : threads[k].pc = "check"
    /\ \E k \in 1..Len(threads) : threads[k].pc = "enter"

\* C12: the winner is the first-recorded outcome. Every append goes to the
\* end of the list and is made by a thread inside the with block, so the
\* list is in lock-acquisition order, and the Result carries its first
\* element, whatever the thread ids are.
C12_FirstRecordedWins ==
    /\ [](ret # <<>> => (results # <<>> /\ ret[1].successful_thread = results[1]))
    /\ [][results' # results =>
            \E k \in 1..Len(threads) :
                /\ threads[k].pc = "append"
                /\ locked
                /\ results' = results \o
                       <<[thread_id |-> k - 1, sorted_array |-> threads[k].arr]>>]_vars

\* For [1, 1] thread 1 took the lock before thread 0 and is the winner.
C12_Witness ==
    /\ pc = "returned"
    /\ arr = <<1, 1>>
    /\ Len(results) = 2
    /\ results[1].thread_id = 1
    /\ results[2].thread_id = 0
    /\ ret[1].successful_thread.thread_id = 1

\* C13: for an input of length 1 there is one permutation and one thread;
\* the thread finds its candidate sorted and appends it before it
\* terminates; num_of_permutations is 1 and the winner's sorted_array is
\* the input, also as recorded in the MainResult.
C13_SingleElement ==
    (Len(arr) = 1 /\ created) =>
        /\ Len(arr_permutations) = 1
        /\ Len(threads) <= 1
        /\ FannedOut => Len(threads) = 1
        /\ \A k \in 1..Len(threads) :
               /\ threads[k].arr = arr
               /\ threads[k].pc = "done" => Len(results) = 1
        /\ ret # <<>> =>
               /\ ret[1].num_of_permutations = 1
               /\ ret[1].successful_thread.sorted_array = arr
        /\ main_result # <<>> =>
               /\ main_result[1].result.num_of_permutations = 1
               /\ main_result[1].result.successful_thread.sorted_array
                      = main_result[1].original_array

C13_Witness ==
    /\ entry = "main"
    /\ array_size = 1
    /\ main_result # <<>>
    /\ main_result[1].original_array = <<1>>
    /\ main_result[1].result.num_of_permutations = 1
    /\ main_result[1].result.successful_thread.sorted_array = <<1>>
    /\ Len(threads) = 1

\* C14: every outcome in the result list carries the id and the candidate
\* of one thread whose candidate is sorted, and no thread has two outcomes;
\* past the barrier every thread with a sorted candidate has its outcome in
\* the list, so its length is the number of sorted arrangements.
C14_NoOutcomeLost ==
    /\ \A j \in 1..Len(results) :
           /\ results[j].thread_id \in 0..(Len(threads) - 1)
           /\ results[j].sorted_array = threads[results[j].thread_id + 1].arr
           /\ NonDecreasing(results[j].sorted_array)
           /\ \A h \in 1..Len(results) :
                  h # j => results[h].thread_id # results[j].thread_id
    /\ PastBarrier =>
           /\ \A k \in 1..Len(threads) :
                  NonDecreasing(threads[k].arr) <=>
                      \E j \in 1..Len(results) : results[j].thread_id = k - 1
           /\ Len(results) = SortedArrangements(arr)

C14_Witness ==
    /\ pc = "read"
    /\ arr = <<1, 1>>
    /\ Len(results) = 2
    /\ {results[1].thread_id, results[2].thread_id} = {0, 1}

\* Thread k is between Locked.__enter__ and Locked.__exit__.
InsideWith(k) == threads[k].pc \in {"append", "exit"}

\* The orchestrator is between Locked.__enter__ and Locked.__exit__.
OrchInsideWith == pc \in {"read", "exit"}

\* Number of threads, orchestrator included, inside the with block.
Holders ==
    Cardinality({k \in 1..Len(threads) : InsideWith(k)})
        + (IF OrchInsideWith THEN 1 ELSE 0)

\* C15: at most one thread, worker or orchestrator, is inside the with
\* block, and the lock is held exactly then; the result list changes, and
\* the Result is read from it, only in a step of the thread inside.
C15_MutualExclusion ==
    /\ [](Holders <= 1 /\ (locked <=> Holders = 1))
    /\ [][/\ results' # results =>
                 (locked /\ \E k \in 1..Len(threads) :
                     InsideWith(k) /\ threads'[k] # threads[k])
          /\ ret' # ret => (locked /\ OrchInsideWith)]_vars

C15_Witness ==
    /\ locked
    /\ Holders = 1
    /\ Len(results) = 1
    /\ \E k \in 1..Len(threads) : threads[k].pc = "append"
    /\ \E k \in 1..Len(threads) : threads[k].pc = "enter"

\* C16: a thread whose candidate is not sorted is only ever at its check
\* or terminated; its single step goes from the check to termination and
\* changes nothing else: not the result list, not the lock, not another
\* thread, not the orchestrator.
C16_UnsortedIsNoOp ==
    /\ [](\A k \in 1..Len(threads) :
            ~NonDecreasing(threads[k].arr) => threads[k].pc \in {"check", "done"})
    /\ [][\A k \in 1..Len(threads) :
            (~NonDecreasing(threads[k].arr) /\ threads'[k] # threads[k]) =>
                /\ threads[k].pc = "check"
                /\ threads'[k] = [threads[k] EXCEPT !.pc = "done"]
                /\ Len(threads') = Len(threads)
                /\ \A j \in 1..Len(threads) : j # k => threads'[j] = threads[j]
                /\ UNCHANGED <<pc, entry, array_size, arr, arr_permutations,
                               permutation_count, created, results, locked,
                               joined, ret, exc, main_result>>]_vars

C16_Witness ==
    /\ arr = <<2, 1>>
    /\ Len(threads) = 2
    /\ threads[1].pc = "done"
    /\ threads[2].pc = "check"
    /\ results = <<>>
    /\ ~locked

\* Every permutation has a thread and every thread has terminated.
AllTerminated ==
    /\ created
    /\ Len(threads) = Len(arr_permutations)
    /\ \A k \in 1..Len(threads) : threads[k].pc = "done"

\* C17: under fair scheduling a pass that has entered tpqbogo returns a
\* Result, once threads are being started every permutation's thread gets
\* started and terminates, and a held lock is released;
\* no thread terminates holding the lock; and a thread can be unable to
\* step only at the join (the orchestrator, waiting for a running thread)
\* or at Locked.__enter__ (while the lock is held).
C17_Termination ==
    /\ (pc = "tpqbogo") ~> (pc \in {"returned", "main_returned"} /\ ret # <<>>)
    /\ (pc = "spawn") ~> AllTerminated
    /\ locked ~> ~locked
    /\ []((AllTerminated /\ ~OrchInsideWith) => ~locked)
    /\ [](\A k \in 1..Len(threads) :
            /\ threads[k].pc \in {"check", "append", "exit"} =>
                   ENABLED (TaskCheck(k) \/ TaskAppend(k) \/ TaskExit(k))
            /\ threads[k].pc = "enter" => (ENABLED TaskEnter(k) <=> ~locked))
    /\ [](/\ pc \in {"main_shuffle", "main_validate", "tpqbogo", "spawn",
                      "read", "exit"} =>
                 ENABLED (MainShuffle \/ MainValidate \/ TpqbogoSetup
                          \/ Spawn \/ OrchRead \/ OrchExit)
          /\ pc = "join" => (ENABLED Join <=> threads[joined + 1].pc = "done")
          /\ pc = "enter" => (ENABLED OrchEnter <=> ~locked))

C17_Witness ==
    /\ pc = "returned"
    /\ Len(threads) = 6
    /\ Len(results) = 6
    /\ ~locked
    /\ ret # <<>>
    /\ \A k \in 1..Len(threads) : threads[k].pc = "done"

\* C18: once handed to tpqbogo the input array never changes, no step
\* changes the candidate or the id of a started thread, and the
\* original_array of the MainResult is the array as tpqbogo received it
\* (the first permutation enumerated, the candidate of thread 0).
C18_InputUnchanged ==
    /\ [][/\ pc \notin {"start", "main_shuffle"} => arr' = arr
          /\ \A k \in 1..Len(threads) :
                 /\ k <= Len(threads')
                 /\ threads'[k].arr = threads[k].arr
                 /\ threads'[k].idx = threads[k].idx]_vars
    /\ [](main_result # <<>> =>
            /\ main_result[1].original_array = arr
            /\ main_result[1].original_array = arr_permutations[1]
            /\ main_result[1].original_array = threads[1].arr
            /\ main_result[1].original_array \in Shuffles(range1(array_size)))

C18_Witness ==
    /\ main_result # <<>>
    /\ main_result[1].original_array = <<2, 3, 1>>
    /\ arr = <<2, 3, 1>>
    /\ threads[1].arr = <<2, 3, 1>>
    /\ main_result[1].result.successful_thread.sorted_array = <<1, 2, 3>>

\* The positions of s in ascending order of their values (s distinct).
SortingPositions(s) ==
    CHOOSE f \in Bijections(Len(s)) :
        \A i \in 1..(Len(s) - 1) : s[f[i]] < s[f[i + 1]]

\* g comes before f in lexicographic order.
LexLess(g, f) ==
    \E i \in 1..Len(f) : g[i] < f[i] /\ \A j \in 1..(i - 1) : g[j] = f[j]

\* Number of position tuples enumerated before f.
EnumerationIndex(f) ==
    Cardinality({g \in Bijections(Len(f)) : LexLess(g, f)})

\* C19: for an input of pairwise distinct elements the Result is a function
\* of the input alone, so any two runs agree whatever the interleaving:
\* num_of_permutations is N!, thread_id is the enumeration index of the
\* ascending arrangement, and sorted_array is that arrangement.
C19_DistinctDeterministic ==
    (Distinct(arr) /\ ret # <<>>) =>
        ret[1] = [num_of_permutations |-> Cardinality(Bijections(Len(arr))),
                  successful_thread |->
                      [thread_id |-> EnumerationIndex(SortingPositions(arr)),
                       sorted_array |-> PermList(arr, SortingPositions(arr))]]

C19_Witness ==
    /\ pc = "returned"
    /\ arr = <<3, 1, 2>>
    /\ ret = <<[num_of_permutations |-> 6,
                successful_thread |->
                    [thread_id |-> 3, sorted_array |-> <<1, 2, 3>>]]>>

====
